---- MODULE Spec2Model ----
(***************************************************************************)
(* Batch automation controller of src/test.py: main() walks every .prn     *)
(* record through the DOSBox/CFA menu tree (process_prn_file), pausing at   *)
(* take_screenshot for the stability wait.  The environment (the DOSBox     *)
(* window, the frames on screen, the disk) is nondeterministic.             *)
(* The extractor window of src/FreqPrepV2.py is modelled in parts of its    *)
(* own, each with its own variables and specification, further down.        *)
(***************************************************************************)
EXTENDS Integers, Sequences, FiniteSets, TLC

VARIABLES
  dosbox_exists,            \* os.path.exists(dosbox_path) (line 16)
  screenshot_dir_exists,    \* os.path.exists(screenshot_dir) (lines 20-21)
  listing,                  \* what os.listdir(prn_files_dir) returns (line 208)
  prn_files,                \* main(): the filtered record list (line 208)
  main_resolution_prompted, \* main(): resolution_prompted (lines 209, 214)
  idx,                      \* main(): position of the for loop in prn_files (line 212)
  resolution_prompted,      \* process_prn_file(): its parameter/local (lines 105, 175)
  pc,                       \* the statement main()/process_prn_file() is at
  window,                   \* a window titled "DOSBox" exists
  geometry,                 \* where that window is on the screen: its left, top, width, height
  log,                      \* every launch, key, typed text, sleep and capture call so far
  spc,                      \* take_screenshot(): "none" (not running), "entry", "loop"
  filename,                 \* take_screenshot(): filename argument
  timeout,                  \* take_screenshot(): timeout argument
  previous_screenshot,      \* take_screenshot(): local (lines 75, 94)
  current_screenshot,       \* take_screenshot(): local (line 83), Unbound before the first poll
  elapsed,                  \* take_screenshot(): time.time() - start_time, in seconds
  bbox,                     \* take_screenshot(): left, top, width, height (line 72)
  grabbed,                  \* the screen region of the most recent ImageGrab.grab
  lastShot,                 \* how the most recent take_screenshot call ended
  \* DSNWorker.run (src/FreqPrepV2.py lines 28-48)
  run_pc,                   \* the statement run() is at
  run_listed,               \* what list_dsns(self.file_path) does: its result, or it raises
  run_dsns,                 \* run(): dsns
  run_i,                    \* run(): how many turns of the for loop are done
  run_grouped_dsns,         \* run(): grouped_dsns, a dict in insertion order
  run_emitted,              \* the signals run() has emitted so far, in order
  \* MainWindow's message label (src/FreqPrepV2.py lines 1151-1194)
  error_dialog,             \* self.error_dialog: the label, or NoLabel for None / no attribute
  message_labels,           \* the message labels self.main_layout holds
  timers,                   \* the pending QTimer.singleShot calls: when each is due
  clock,                    \* the time, in seconds
  shown_at,                 \* when the label of error_dialog was put up
  \* MainWindow's file and DSN selection (src/FreqPrepV2.py lines 325-475)
  app,                      \* "running", or "aborted" once the process has died
  file_input,               \* the text of self.file_input
  workers,                  \* every DSNWorker started so far, oldest first
  finished_queue,           \* finished signals emitted and not yet handled by the main thread
  grouped_dsns,             \* self.grouped_dsns
  bucket_buttons,           \* the buttons of self.dsn_button_layout: their groups
  selected_dsns,            \* self.selected_dsns
  popup,                    \* the dialog of open_dsn_popup and its checkboxes
  \* MainWindow's data preview (src/FreqPrepV2.py lines 784-904, 1094-1111)
  preview_pc,               \* "closed", or "open" while the preview dialog is up
  data_rows,                \* processed_data: how many rows each DSN's data has
  preview_table,            \* self.preview_table: the text of every cell, row by row
  decimal_inputs            \* the text of the QLineEdit of each DSN column

vars == <<dosbox_exists, screenshot_dir_exists, listing, prn_files, main_resolution_prompted, idx, resolution_prompted,
          pc, window, geometry, log, spc, filename, timeout, previous_screenshot,
          current_screenshot, elapsed, bbox, grabbed, lastShot,
          run_pc, run_listed, run_dsns, run_i, run_grouped_dsns, run_emitted,
          error_dialog, message_labels, timers, clock, shown_at,
          app, file_input, workers, finished_queue, grouped_dsns, bucket_buttons,
          selected_dsns, popup, preview_pc, data_rows, preview_table, decimal_inputs>>

diskVars == <<dosbox_exists, screenshot_dir_exists>>
mainVars == <<diskVars, listing, prn_files, main_resolution_prompted, idx,
              resolution_prompted>>
runVars == <<run_pc, run_listed, run_dsns, run_i, run_grouped_dsns, run_emitted>>
msgVars == <<error_dialog, message_labels, timers, clock, shown_at>>
dsnVars == <<app, file_input, workers, finished_queue, grouped_dsns, bucket_buttons,
             selected_dsns, popup>>
previewVars == <<preview_pc, data_rows, preview_table, decimal_inputs>>
guiVars == <<runVars, msgVars, dsnVars, previewVars>>
shotVars == <<spc, filename, timeout, previous_screenshot, current_screenshot, elapsed,
              bbox>>

----------------------------------------------------------------------------
(* Bounds of the model. *)

MaxFiles == 2           \* longest directory listing
NumFrames == 2          \* distinct frame contents the screen can show
MaxCaptureSecs == 1     \* longest time one ImageGrab.grab takes, in seconds
MaxTimeout == 4         \* largest timeout argument tried on take_screenshot alone
NumGeometries == 2      \* distinct places and sizes the window can have
MaxDsns == 2            \* most DSNs a small WDM file holds
ManyDsns == 101         \* DSNs in the large WDM file
MaxTimers == 2          \* most removal timers pending at a time
MaxClock == 4           \* seconds of the message clock that are followed
MaxSelections == 2      \* most files chosen with select_file in one run of the window
MaxRows == 101          \* rows of the longest processed data
MaxPlaces == 3          \* most decimal places typed into a preview column

(* Program constants. *)

DefaultTimeout == 30    \* take_screenshot(timeout=30)
MessageDelay == 2       \* QTimer.singleShot(2000, ..), in seconds
PreviewLimit == 100     \* show_data_preview: min(100, total_rows)
HeadRows == 60          \* show_data_preview: indices[:60]
EllipsisRows == 5       \* show_data_preview: range(5)
TailRows == 35          \* show_data_preview: indices[-35:]
header_rows == 3        \* show_data_preview: header_rows, update_decimal_places: row_offset
PollSleep == 1          \* time.sleep(1) in the poll loop
DefaultInterval == 100  \* send_keys(interval=0.1), in milliseconds
Unbound == 0            \* current_screenshot before line 83 has run

DirNames == {"site12.prn", "site45.prn", "notes.txt"}
Frames == 1..NumFrames
Geometries == 1..NumGeometries

RECURSIVE SeqsNoDup(_, _)
SeqsNoDup(S, n) ==
  IF n = 0 THEN {<<>>}
  ELSE LET shorter == SeqsNoDup(S, n - 1)
           fresh == {q \in shorter \X S :
                       /\ Len(q[1]) = n - 1
                       /\ \A i \in 1..Len(q[1]) : q[1][i] # q[2]}
       IN shorter \cup {Append(q[1], q[2]) : q \in fresh}

Listings == SeqsNoDup(DirNames, MaxFiles)

----------------------------------------------------------------------------
(* Pure helpers. *)

EndsWith(s, suffix) ==
  /\ Len(s) >= Len(suffix)
  /\ SubSeq(s, Len(s) - Len(suffix) + 1, Len(s)) = suffix

RECURSIVE FilterPrn(_)
FilterPrn(fs) ==
  IF fs = <<>> THEN <<>>
  ELSE IF EndsWith(Head(fs), ".prn")
       THEN <<Head(fs)>> \o FilterPrn(Tail(fs))
       ELSE FilterPrn(Tail(fs))

Press(k, ms) == [op |-> "press", arg |-> k, delay |-> ms]
Write(text, ms) == [op |-> "write", arg |-> text, delay |-> ms]
Sleep(ms) == [op |-> "sleep", arg |-> "", delay |-> ms]
Hotkey(k) == [op |-> "hotkey", arg |-> k, delay |-> 0]
Popen == [op |-> "launch", arg |-> "DOSBox.exe", delay |-> 0]
Activate == [op |-> "activate", arg |-> "DOSBox", delay |-> 0]
Capture(f) == [op |-> "screenshot", arg |-> f, delay |-> 0]

send_keys(keys, interval) == [i \in 1..Len(keys) |-> Press(keys[i], interval)]

----------------------------------------------------------------------------
(* The keystrokes of process_prn_file, one definition per stretch of code   *)
(* between two places where the window or the screen is looked at.  Delays  *)
(* are in milliseconds.                                                      *)

LaunchEvents == <<Popen, Sleep(2000)>>
FocusEvents == <<Activate, Sleep(500)>>
NoMountKeys == <<>>
MountKeys == <<Write("mount c C:/Temp", 10), Sleep(500), Press("enter", 0)>>
StartCFAKeys ==
  <<Write("c:", 10), Sleep(500), Press("enter", 0), Write("CFA", 10)>>
    \o send_keys(<<"enter", "enter", "enter">>, 100)
MainMenuKeys ==
  <<Press("1", 0), Press("enter", 0), Sleep(500),
    Press("6", 0), Press("enter", 0), Sleep(500)>>
FileSelectKeys(prn_file) ==
  <<Write(prn_file, 0)>> \o send_keys(<<"enter">>, DefaultInterval)
DriveConfirmKeys ==
  <<Write("C:", 0)>> \o send_keys(<<"enter">>, DefaultInterval)
    \o <<Sleep(500)>> \o send_keys(<<"enter">>, DefaultInterval)
FrequencyMenuKeys == send_keys(<<"7", "enter", "enter", "enter">>, 100)
LP3Keys == send_keys(<<"3", "enter", "enter", "enter", "enter">>, 100)
LP3DismissKeys == send_keys(<<"enter", "enter">>, DefaultInterval)
ResolutionKeysEnterOnly == send_keys(<<"enter", "enter", "enter">>, 100)
ResolutionKeys ==
  <<Write("97,97", 0)>> \o send_keys(<<"enter", "enter", "enter">>, 100)
GraphDismissKeys ==
  send_keys(<<"enter">>, 1000) \o send_keys(<<"enter", "enter">>, 100)
WakebyKeys == send_keys(<<"4", "enter", "enter", "enter", "enter">>, 100)
ToGraphKeys == send_keys(<<"enter", "enter", "enter", "enter">>, 100)
GevKeys == send_keys(<<"1", "enter", "enter", "enter", "enter">>, 100)
ReturnToMainKeys == send_keys(<<"1">>, DefaultInterval)
NoCloseKeys == <<>>
CloseKeys == <<Hotkey("alt+f4")>>

(* The six take_screenshot call sites and the file name each one passes. *)
ShotSites == {"shot01", "shot02", "shot03", "shot04", "shot05", "shot06"}

ShotFileSameStage(site, prn_file) == "01_" \o prn_file \o "_LP3.png"

ShotFile(site, prn_file) ==
  CASE site = "shot01" -> "01_" \o prn_file \o "_LP3.png"
    [] site = "shot02" -> "02_" \o prn_file \o "_LP3_GRAPH.png"
    [] site = "shot03" -> "03_" \o prn_file \o "_WAKEBY.png"
    [] site = "shot04" -> "04_" \o prn_file \o "_WAKEBY_GRAPH.png"
    [] site = "shot05" -> "05_" \o prn_file \o "_GEV.png"
    [] site = "shot06" -> "06_" \o prn_file \o "_GEV_GRAPH.png"

(* The statement process_prn_file resumes at when take_screenshot returns. *)
Continue(site) ==
  CASE site = "shot01" -> "lp3_dismiss"
    [] site = "shot02" -> "resolution_done"
    [] site = "shot03" -> "wakeby_graph"
    [] site = "shot04" -> "wakeby_dismiss"
    [] site = "shot05" -> "gev_graph"
    [] site = "shot06" -> "gev_dismiss"
    [] OTHER -> "returned"

(* How take_screenshot hands control back: both except clauses (lines      *)
(* 99-102) swallow the error, so the caller resumes whatever the result.   *)
ShotReturnRaises(result, site) ==
  IF result = "io_error" THEN "raised" ELSE Continue(site)

ShotReturn(result, site) == Continue(site)

(* check_dosbox_window() and the sys.exit() under it (lines 119-122, 128-130). *)
check_dosbox_window == window

AfterCheckIgnored(alive, next) == next

AfterCheck(alive, next) == IF alive THEN next ELSE "exited"

(* The flag main() passes into the walk (line 214) and takes back (203, 214). *)
ArgFlagDefault(flag) == FALSE

ArgFlag(flag) == flag

(* ImageChops.difference(a, b).getbbox() is None: no pixel differs (86-87). *)
NoDifference(a, b) == a = b

(* previous_screenshot = current_screenshot (line 94). *)
KeepPrevious(prev, cur) == prev

NextPrevious(prev, cur) == cur

Halted == {"exited", "raised"}
NoShot == [file |-> "", by |-> "none", result |-> "none", frame |-> Unbound,
           waited |-> 0, timeout |-> 0]

----------------------------------------------------------------------------
(* The extractor window is not open while the batch script runs. *)

RunIdle ==
  /\ run_pc = "idle"
  /\ run_listed = [raises |-> FALSE, dsns |-> <<>>]
  /\ run_dsns = <<>>
  /\ run_i = 0
  /\ run_grouped_dsns = <<>>
  /\ run_emitted = <<>>

NoLabel == [color |-> "none", message |-> ""]

MsgIdle ==
  /\ error_dialog = NoLabel
  /\ message_labels = <<>>
  /\ timers = <<>>
  /\ clock = 0
  /\ shown_at = 0

NoPopup == [open |-> FALSE, boxes |-> <<>>]

\* Lines 115-323, MainWindow.__init__: nothing chosen, no worker, no button.
DsnIdle ==
  /\ app = "running"
  /\ file_input = ""
  /\ workers = <<>>
  /\ finished_queue = <<>>
  /\ grouped_dsns = <<>>
  /\ bucket_buttons = <<>>
  /\ selected_dsns = <<>>
  /\ popup = NoPopup

PreviewIdle ==
  /\ preview_pc = "closed"
  /\ data_rows = 0
  /\ preview_table = <<>>
  /\ decimal_inputs = <<>>

GuiIdle == RunIdle /\ MsgIdle /\ DsnIdle /\ PreviewIdle

----------------------------------------------------------------------------
(* main() and process_prn_file(). *)

Init ==
  /\ dosbox_exists \in BOOLEAN
  /\ screenshot_dir_exists \in BOOLEAN
  /\ listing \in Listings
  /\ prn_files = <<>>
  /\ main_resolution_prompted = FALSE
  /\ idx = 0
  /\ resolution_prompted = FALSE
  /\ pc = "import"
  /\ window = FALSE
  /\ geometry = 1
  /\ log = <<>>
  /\ spc = "none"
  /\ filename = ""
  /\ timeout = DefaultTimeout
  /\ previous_screenshot = Unbound
  /\ current_screenshot = Unbound
  /\ elapsed = 0
  /\ bbox = Unbound
  /\ grabbed = Unbound
  /\ lastShot = NoShot
  /\ GuiIdle

FirstRecordAgain == prn_files[1]
prn_file == prn_files[idx]

\* A stretch of keystrokes: from statement `from` to statement `to`.
Keys(from, to, events) ==
  /\ pc = from
  /\ spc = "none"
  /\ pc' = to
  /\ log' = log \o events
  /\ UNCHANGED <<guiVars, mainVars, geometry, grabbed, window, shotVars, lastShot>>

\* A stretch of keystrokes that ends in the call take_screenshot(ShotFile(site, ..)).
KeysThenShot(from, site, events) ==
  /\ pc = from
  /\ spc = "none"
  /\ pc' = site
  /\ log' = log \o events \o <<Capture(ShotFile(site, prn_file))>>
  /\ spc' = "entry"
  /\ filename' = ShotFile(site, prn_file)
  /\ timeout' = DefaultTimeout
  /\ lastShot' = NoShot
  /\ UNCHANGED <<guiVars, mainVars, geometry, grabbed, window, previous_screenshot,
                 current_screenshot, elapsed, bbox>>

\* Line 16: the script goes on only if DOSBox.exe is where dosbox_path says.
StartupUnchecked(exists) == TRUE
StartupOk(exists) == exists

\* Lines 15-21, run when the script is loaded, before main() is called.
ModuleStartup ==
  /\ pc = "import"
  /\ IF StartupOk(dosbox_exists)
     THEN /\ screenshot_dir_exists' = TRUE
          /\ pc' = "start"
     ELSE /\ pc' = "startup_failed"
          /\ UNCHANGED screenshot_dir_exists
  /\ UNCHANGED <<guiVars, dosbox_exists, geometry, grabbed, listing, prn_files, main_resolution_prompted,
                 idx,
                 resolution_prompted, window, log, shotVars, lastShot>>

\* Lines 208-209.
MainStart ==
  /\ pc = "start"
  /\ prn_files' = FilterPrn(listing)
  /\ main_resolution_prompted' = FALSE
  /\ pc' = "loop"
  /\ UNCHANGED <<guiVars, diskVars, geometry, grabbed, listing, idx, resolution_prompted,
                 window, log, shotVars,
                 lastShot>>

\* Line 212: the for loop iterates over the list object built at line 208; the
\* directory is not read again.
RescanEachTurn(files, dir) == FilterPrn(dir)
LoopList(files, dir) == files

\* Lines 212-214: the next record, and the call of process_prn_file.
LoopNext ==
  /\ pc = "loop"
  /\ prn_files' = LoopList(prn_files, listing)
  /\ IF idx < Len(prn_files)
     THEN /\ idx' = idx + 1
          /\ resolution_prompted' = ArgFlag(main_resolution_prompted)
          /\ pc' = "launch"
     ELSE /\ pc' = "done"
          /\ UNCHANGED <<idx, resolution_prompted>>
  /\ UNCHANGED <<guiVars, diskVars, geometry, grabbed, listing, main_resolution_prompted,
                 window, log,
                 shotVars, lastShot>>

\* Lines 107-108: DOSBox is started; its window may or may not be up in time.
Launch ==
  /\ pc = "launch"
  /\ pc' = "focus"
  /\ log' = log \o LaunchEvents
  /\ window' \in BOOLEAN
  /\ UNCHANGED <<guiVars, mainVars, geometry, grabbed, shotVars, lastShot>>

\* Lines 111-115: getWindowsWithTitle("DOSBox")[0] raises IndexError when no
\* window is found; the except clause re-raises it as Exception, which nothing
\* catches.
AfterFocusSwallowed(found) == "check_mount"
AfterFocus(found) == IF found THEN "check_mount" ELSE "raised"

\* Lines 111-116.
Focus ==
  /\ pc = "focus"
  /\ pc' = AfterFocus(window)
  /\ IF window
     THEN log' = log \o FocusEvents
     ELSE UNCHANGED log
  /\ UNCHANGED <<guiVars, mainVars, geometry, grabbed, window, shotVars, lastShot>>

\* Lines 119-122.
CheckMount ==
  /\ pc = "check_mount"
  /\ pc' = AfterCheck(check_dosbox_window, "mount")
  /\ UNCHANGED <<guiVars, mainVars, geometry, grabbed, window, log, shotVars, lastShot>>

\* Lines 124-126.
Mount == Keys("mount", "check_switch", MountKeys)

\* Lines 128-130.
CheckSwitch ==
  /\ pc = "check_switch"
  /\ pc' = AfterCheck(check_dosbox_window, "switch")
  /\ UNCHANGED <<guiVars, mainVars, geometry, grabbed, window, log, shotVars, lastShot>>

\* Lines 133-139.
StartCFA == Keys("switch", "main_menu", StartCFAKeys)

\* Lines 142-147.
MainMenu == Keys("main_menu", "file_select", MainMenuKeys)

\* Lines 150-151.
FileSelect == Keys("file_select", "drive_confirm", FileSelectKeys(prn_file))

\* Lines 152-159.
DriveConfirm == Keys("drive_confirm", "frequency_menu", DriveConfirmKeys)

\* Line 162.
FrequencyMenu == Keys("frequency_menu", "lp3", FrequencyMenuKeys)

\* Lines 165-166.
LP3 == KeysThenShot("lp3", "shot01", LP3Keys)

\* Line 167.
LP3Dismiss == Keys("lp3_dismiss", "resolution", LP3DismissKeys)

\* Lines 170-174: the prompt is answered.
ResolutionPrompt ==
  /\ ~resolution_prompted
  /\ KeysThenShot("resolution", "shot02", ResolutionKeys)

\* Line 170, the flag already set: the block is skipped.
ResolutionSkip ==
  /\ resolution_prompted
  /\ Keys("resolution", "wakeby", <<>>)

\* Lines 175-177.
ResolutionDone ==
  /\ pc = "resolution_done"
  /\ spc = "none"
  /\ resolution_prompted' = TRUE
  /\ pc' = "wakeby"
  /\ log' = log \o GraphDismissKeys
  /\ UNCHANGED <<guiVars, diskVars, geometry, grabbed, listing, prn_files, main_resolution_prompted,
                 idx, window,
                 shotVars, lastShot>>

\* Lines 180-181.
WAKEBY == KeysThenShot("wakeby", "shot03", WakebyKeys)

\* Lines 182-184.
WakebyGraph == KeysThenShot("wakeby_graph", "shot04", ToGraphKeys)

\* Lines 185-186.
WakebyDismiss == Keys("wakeby_dismiss", "gev", GraphDismissKeys)

\* Lines 189-190.
GEV == KeysThenShot("gev", "shot05", GevKeys)

\* Lines 191-193.
GevGraph == KeysThenShot("gev_graph", "shot06", ToGraphKeys)

\* Lines 194-195.
GevDismiss == Keys("gev_dismiss", "return_to_main", GraphDismissKeys)

\* Line 198.
ReturnToMain == Keys("return_to_main", "close", ReturnToMainKeys)

\* Line 201: alt+f4 closes the window that has the focus.
CloseDosbox ==
  /\ pc = "close"
  /\ pc' = "return"
  /\ log' = log \o CloseKeys
  /\ window' = FALSE
  /\ UNCHANGED <<guiVars, mainVars, geometry, grabbed, shotVars, lastShot>>

\* Line 203 and the assignment of line 214; the locals of the call are gone.
Return ==
  /\ pc = "return"
  /\ main_resolution_prompted' = resolution_prompted
  /\ pc' = "loop"
  /\ lastShot' = NoShot
  /\ UNCHANGED <<guiVars, diskVars, geometry, grabbed, listing, prn_files, idx,
                 resolution_prompted, window, log,
                 shotVars>>

----------------------------------------------------------------------------
(* take_screenshot(filename, window_title="DOSBox", timeout=30). *)

\* Lines 75, 83: the region ImageGrab.grab is given is the one computed from the
\* locals of line 72, not from the window as it is now.
GrabBox(box, now) == box

\* The function returns (normally or through one of its except clauses).
ShotEnd(by, result, frame, waited) ==
  /\ spc' = "none"
  /\ pc' = ShotReturn(result, pc)
  /\ lastShot' = [file |-> filename, by |-> by, result |-> result, frame |-> frame,
                  waited |-> waited, timeout |-> timeout]
  /\ filename' = ""
  /\ timeout' = DefaultTimeout
  /\ previous_screenshot' = Unbound
  /\ current_screenshot' = Unbound
  /\ elapsed' = 0
  /\ bbox' = Unbound

\* Lines 67-77: the window lookup, the first capture, start_time.
ShotLookup ==
  /\ spc = "entry"
  /\ IF window
     THEN /\ bbox' = geometry
          /\ grabbed' = GrabBox(bbox', geometry)
          /\ \E f \in Frames : previous_screenshot' = f
          /\ spc' = "loop"
          /\ elapsed' = 0
          /\ UNCHANGED <<pc, filename, timeout, current_screenshot, lastShot>>
     ELSE /\ ShotEnd("lookup", "not_found", Unbound, 0)
          /\ UNCHANGED grabbed
  /\ UNCHANGED <<guiVars, mainVars, geometry, window, log>>

\* Lines 78-83: what time.time() - start_time is after one more turn of the
\* loop: the sleep of line 80 and the d seconds the capture took have passed.
TimeStandsStill(t, d) == t
TimeAfterPoll(t, d) == t + PollSleep + d

\* Lines 78-94: one turn of the poll loop.
ShotPoll ==
  /\ spc = "loop"
  /\ elapsed < timeout
  /\ grabbed' = GrabBox(bbox, geometry)
  /\ \E d \in 0..MaxCaptureSecs, f \in Frames :
       LET now == TimeAfterPoll(elapsed, d)
       IN IF NoDifference(previous_screenshot, f)
          THEN \E saved \in BOOLEAN :
                 ShotEnd("stable", IF saved THEN "saved" ELSE "io_error", f, now)
          ELSE /\ current_screenshot' = f
               /\ previous_screenshot' = NextPrevious(previous_screenshot, f)
               /\ elapsed' = now
               /\ UNCHANGED <<pc, spc, filename, timeout, bbox, lastShot>>
  /\ UNCHANGED <<guiVars, mainVars, geometry, window, log>>

\* Line 78 false, then lines 96-98: the loop has run out of time.
ShotTimeout ==
  /\ spc = "loop"
  /\ ~(elapsed < timeout)
  /\ IF current_screenshot = Unbound
     THEN ShotEnd("timeout", "unbound_error", Unbound, elapsed)
     ELSE \E saved \in BOOLEAN :
            ShotEnd("timeout", IF saved THEN "saved_timeout" ELSE "io_error",
                    current_screenshot, elapsed)
  /\ UNCHANGED <<guiVars, mainVars, geometry, grabbed, window, log>>

----------------------------------------------------------------------------
(* The environment: the DOSBox window goes away (closed by hand, crashed). *)

Running == pc \notin {"import", "startup_failed", "start", "done", "exited", "raised", "returned"}

WindowClosed ==
  /\ window
  /\ Running
  /\ window' = FALSE
  /\ UNCHANGED <<guiVars, mainVars, geometry, grabbed, pc, log, shotVars, lastShot>>

\* The DOSBox window is moved or resized.  The walk never reads the geometry:
\* only take_screenshot does, so moves are explored for take_screenshot alone.
WindowMoved ==
  /\ window
  /\ pc = "direct"
  /\ \E g \in Geometries \ {geometry} : geometry' = g
  /\ UNCHANGED <<guiVars, mainVars, window, pc, log, shotVars, grabbed, lastShot>>

----------------------------------------------------------------------------

Next ==
  \/ ModuleStartup
  \/ MainStart \/ LoopNext \/ Launch \/ Focus \/ CheckMount \/ Mount
  \/ CheckSwitch \/ StartCFA \/ MainMenu \/ FileSelect \/ DriveConfirm
  \/ FrequencyMenu \/ LP3 \/ LP3Dismiss \/ ResolutionPrompt \/ ResolutionSkip
  \/ ResolutionDone \/ WAKEBY \/ WakebyGraph \/ WakebyDismiss \/ GEV
  \/ GevGraph \/ GevDismiss \/ ReturnToMain \/ CloseDosbox \/ Return
  \/ ShotLookup \/ ShotPoll \/ ShotTimeout
  \/ WindowClosed

Spec == Init /\ [][Next]_vars

\* The steps of the script itself.  The script is sequential and blocks only in
\* sleeps: whenever it has a next statement, it eventually executes it.
Program ==
  \/ ModuleStartup
  \/ MainStart \/ LoopNext \/ Launch \/ Focus \/ CheckMount \/ Mount
  \/ CheckSwitch \/ StartCFA \/ MainMenu \/ FileSelect \/ DriveConfirm
  \/ FrequencyMenu \/ LP3 \/ LP3Dismiss \/ ResolutionPrompt \/ ResolutionSkip
  \/ ResolutionDone \/ WAKEBY \/ WakebyGraph \/ WakebyDismiss \/ GEV
  \/ GevGraph \/ GevDismiss \/ ReturnToMain \/ CloseDosbox \/ Return
  \/ ShotLookup \/ ShotPoll \/ ShotTimeout

LiveSpec == Spec /\ WF_vars(Program)

(* main() on its own: each call of process_prn_file is one step, and the     *)
(* input directory changes while the batch runs.                            *)

\* Everything one call of process_prn_file emits when it runs to its return,
\* read off lines 107-201 from top to bottom.
WalkSteps(record, flag) ==
  LaunchEvents \o FocusEvents \o MountKeys \o StartCFAKeys \o MainMenuKeys
    \o FileSelectKeys(record) \o DriveConfirmKeys \o FrequencyMenuKeys
    \o LP3Keys \o <<Capture(ShotFile("shot01", record))>> \o LP3DismissKeys
    \o (IF flag THEN <<>>
        ELSE ResolutionKeys \o <<Capture(ShotFile("shot02", record))>>
               \o GraphDismissKeys)
    \o WakebyKeys \o <<Capture(ShotFile("shot03", record))>>
    \o ToGraphKeys \o <<Capture(ShotFile("shot04", record))>> \o GraphDismissKeys
    \o GevKeys \o <<Capture(ShotFile("shot05", record))>>
    \o ToGraphKeys \o <<Capture(ShotFile("shot06", record))>> \o GraphDismissKeys
    \o ReturnToMainKeys \o CloseKeys

\* Lines 105-203 as one step: the call raises at line 115, exits at line 122 or
\* 130, or runs to its return statement.
ProcessRecord ==
  /\ pc = "launch"
  /\ \/ /\ pc' = AfterFocus(FALSE)
        /\ log' = log \o LaunchEvents
        /\ UNCHANGED <<resolution_prompted, grabbed>>
     \/ /\ pc' = AfterCheck(FALSE, "mount")
        /\ log' = log \o LaunchEvents \o FocusEvents
        /\ UNCHANGED <<resolution_prompted, grabbed>>
     \/ /\ pc' = AfterCheck(FALSE, "switch")
        /\ log' = log \o LaunchEvents \o FocusEvents \o MountKeys
        /\ UNCHANGED <<resolution_prompted, grabbed>>
     \/ /\ pc' = "return"
        /\ log' = log \o WalkSteps(prn_file, resolution_prompted)
        /\ resolution_prompted' = TRUE
        /\ grabbed' \in {grabbed, GrabBox(geometry, geometry)}
  /\ window' = FALSE
  /\ UNCHANGED <<guiVars, diskVars, geometry, listing, prn_files, main_resolution_prompted,
                 idx, shotVars, lastShot>>

\* The environment: files are added to or removed from prn_files_dir.
DirChanged ==
  /\ pc \in {"start", "loop", "launch", "return"}
  /\ \E l \in Listings \ {listing} : listing' = l
  /\ UNCHANGED <<guiVars, diskVars, geometry, grabbed, prn_files, main_resolution_prompted,
                 idx, resolution_prompted, pc, window, log, shotVars, lastShot>>

NextMain ==
  \/ ModuleStartup \/ MainStart \/ LoopNext \/ ProcessRecord \/ Return
  \/ DirChanged

SpecMain == Init /\ [][NextMain]_vars

(* take_screenshot on its own, called with any timeout in 0..MaxTimeout. *)
InitShot ==
  /\ dosbox_exists = TRUE
  /\ screenshot_dir_exists = TRUE
  /\ listing = <<>>
  /\ prn_files = <<>>
  /\ main_resolution_prompted = FALSE
  /\ idx = 0
  /\ resolution_prompted = FALSE
  /\ pc = "direct"
  /\ window \in BOOLEAN
  /\ geometry \in Geometries
  /\ log = <<>>
  /\ spc = "entry"
  /\ filename = "out.png"
  /\ timeout \in 0..MaxTimeout
  /\ previous_screenshot = Unbound
  /\ current_screenshot = Unbound
  /\ elapsed = 0
  /\ bbox = Unbound
  /\ grabbed = Unbound
  /\ lastShot = NoShot
  /\ GuiIdle

NextShot == ShotLookup \/ ShotPoll \/ ShotTimeout \/ WindowClosed \/ WindowMoved

SpecShot == InitShot /\ [][NextShot]_vars

----------------------------------------------------------------------------
(* src/FreqPrepV2.py.  The batch script is not running while the window is  *)
(* in use.                                                                  *)

scriptVars == <<mainVars, pc, window, geometry, log, shotVars, grabbed, lastShot>>

ScriptIdle ==
  /\ dosbox_exists = TRUE
  /\ screenshot_dir_exists = TRUE
  /\ listing = <<>>
  /\ prn_files = <<>>
  /\ main_resolution_prompted = FALSE
  /\ idx = 0
  /\ resolution_prompted = FALSE
  /\ pc = "gui"
  /\ window = FALSE
  /\ geometry = 1
  /\ log = <<>>
  /\ spc = "none"
  /\ filename = ""
  /\ timeout = DefaultTimeout
  /\ previous_screenshot = Unbound
  /\ current_screenshot = Unbound
  /\ elapsed = 0
  /\ bbox = Unbound
  /\ grabbed = Unbound
  /\ lastShot = NoShot

(* DSNWorker.run, lines 28-48, one statement at a time. *)

\* A Python dict, kept as the sequence of its items in insertion order.
DictKeys(d) == {d[n].key : n \in 1..Len(d)}
DictGet(d, k) == (CHOOSE n \in 1..Len(d) : d[n].key = k)

\* Lines 38-40 (and 665-667): grouped_dsns[group_key].append(dsn), the list
\* being created first when the key is new.
DictAppend(d, k, v) ==
  IF k \in DictKeys(d)
    THEN [d EXCEPT ![DictGet(d, k)].dsns = Append(@, v)]
    ELSE Append(d, [key |-> k, dsns |-> <<v>>])

\* Line 37 (and 664): f"{(dsn // 1000) * 1000}-{(dsn // 1000) * 1000 + 999}".
GroupKeyOfHundred(dsn) ==
  ToString((dsn \div 100) * 100) \o "-" \o ToString((dsn \div 100) * 100 + 999)
GroupKey(dsn) ==
  ToString((dsn \div 1000) * 1000) \o "-" \o ToString((dsn \div 1000) * 1000 + 999)

\* Lines 661-669, group_dsns: the loop of lines 36-40 without the progress.
RECURSIVE group_dsns(_)
group_dsns(dsns) ==
  IF dsns = <<>> THEN <<>>
  ELSE LET n == Len(dsns)
       IN DictAppend(group_dsns(SubSeq(dsns, 1, n - 1)), GroupKey(dsns[n]), dsns[n])

\* Line 43: int((i + 1) / total_dsns * 100), done being i + 1.  For the list
\* lengths drawn here the float product is off an integer by more than the
\* rounding error, or exactly on it, so int() gives the exact floor.
Percent(done, total_dsns) == (done * 100) \div total_dsns

Progress(value) == [signal |-> "progress", percent |-> value]
Finished(grouped) == [signal |-> "finished", grouped_dsns |-> grouped]

\* The DSN numbers the small files hold, and a file with many DSNs.
DsnPool == {999, 1000, 1999, 2000}
RECURSIVE ListsUpTo(_)
ListsUpTo(n) ==
  IF n = 0 THEN {<<>>}
  ELSE ListsUpTo(n - 1) \cup
       {Append(l, d) : l \in {m \in ListsUpTo(n - 1) : Len(m) = n - 1}, d \in DsnPool}
\* The keys of a dict: no DSN twice.
DsnLists ==
  {l \in ListsUpTo(MaxDsns) : \A a, b \in 1..Len(l) : l[a] = l[b] => a = b}
    \cup {[k \in 1..ManyDsns |-> k]}

\* Lines 75-91, list_dsns: the keys of what wdmtoolbox.listdsns returns, or
\* ValueError when the file cannot be read.
ListDsnsResults ==
  {[raises |-> TRUE, dsns |-> <<>>]} \cup {[raises |-> FALSE, dsns |-> l] : l \in DsnLists}

InitRun ==
  /\ ScriptIdle
  /\ PreviewIdle
  /\ MsgIdle
  /\ DsnIdle
  /\ run_pc = "start"
  /\ run_listed \in ListDsnsResults
  /\ run_dsns = <<>>
  /\ run_i = 0
  /\ run_grouped_dsns = <<>>
  /\ run_emitted = <<>>

\* Lines 30-34, and lines 46-48 when list_dsns raises.
RunStart ==
  /\ run_pc = "start"
  /\ IF run_listed.raises
       THEN /\ run_emitted' = Append(run_emitted, Finished(<<>>))
            /\ run_pc' = "ended"
            /\ UNCHANGED run_dsns
       ELSE /\ run_dsns' = run_listed.dsns
            /\ run_pc' = "loop"
            /\ UNCHANGED run_emitted
  /\ UNCHANGED <<scriptVars, msgVars, dsnVars, previewVars, run_listed, run_i, run_grouped_dsns>>

\* Lines 36-43: one turn of the for loop.
RunLoop ==
  /\ run_pc = "loop"
  /\ run_i < Len(run_dsns)
  /\ LET dsn == run_dsns[run_i + 1]
     IN /\ run_grouped_dsns' = DictAppend(run_grouped_dsns, GroupKey(dsn), dsn)
        /\ run_emitted' = Append(run_emitted, Progress(Percent(run_i + 1, Len(run_dsns))))
  /\ run_i' = run_i + 1
  /\ UNCHANGED <<scriptVars, msgVars, dsnVars, previewVars, run_pc, run_listed, run_dsns>>

\* Line 45, after the last turn of the loop.
RunFinish ==
  /\ run_pc = "loop"
  /\ run_i = Len(run_dsns)
  /\ run_emitted' = Append(run_emitted, Finished(run_grouped_dsns))
  /\ run_pc' = "ended"
  /\ UNCHANGED <<scriptVars, msgVars, dsnVars, previewVars, run_listed, run_dsns, run_i, run_grouped_dsns>>

NextRun == RunStart \/ RunLoop \/ RunFinish

SpecRun == InitRun /\ [][NextRun]_vars

(* The message label: show_error, show_message, remove_error. *)

Remove(labels, label) ==
  LET at == {n \in 1..Len(labels) : labels[n] = label}
  IN IF at = {} THEN labels
     ELSE LET first == CHOOSE n \in at : \A m \in at : n <= m
          IN SubSeq(labels, 1, first - 1) \o SubSeq(labels, first + 1, Len(labels))

\* Lines 1154-1157, 1173-1176, 1191-1194: the label self.error_dialog refers
\* to, if any, is taken out of the layout.
WithoutCurrent(labels, current) ==
  IF current # NoLabel THEN Remove(labels, current) ELSE labels

\* Lines 1154-1168 and 1173-1187: the two functions differ in the colour only.
ShowLabel(color, message) ==
  /\ Len(timers) < MaxTimers
  /\ error_dialog' = [color |-> color, message |-> message]
  /\ message_labels' = Append(WithoutCurrent(message_labels, error_dialog), error_dialog')
  /\ timers' = Append(timers, clock + MessageDelay)
  /\ shown_at' = clock
  /\ UNCHANGED clock

\* What the callers of show_error and show_message pass (lines 366, 714, 1014).
ErrorTexts == {"Failed to process DSNs.", "No DSNs selected. Please select DSNs first."}
MessageTexts == {"Data exported successfully to .txt file."}

InitMsg ==
  /\ ScriptIdle
  /\ PreviewIdle
  /\ RunIdle
  /\ MsgIdle
  /\ DsnIdle

\* Lines 1151-1168.
show_error ==
  /\ \E message \in ErrorTexts : ShowLabel("orange", message)
  /\ UNCHANGED <<scriptVars, runVars, dsnVars, previewVars>>

\* Lines 1170-1187.
show_message ==
  /\ \E message \in MessageTexts : ShowLabel("green", message)
  /\ UNCHANGED <<scriptVars, runVars, dsnVars, previewVars>>

\* Lines 1189-1194, called by a timer that is due; a timer never fires early.
\* The function removes whatever label error_dialog refers to at that time.
remove_error ==
  /\ \E t \in 1..Len(timers) :
       /\ timers[t] <= clock
       /\ timers' = SubSeq(timers, 1, t - 1) \o SubSeq(timers, t + 1, Len(timers))
  /\ message_labels' = WithoutCurrent(message_labels, error_dialog)
  /\ error_dialog' = NoLabel
  /\ UNCHANGED <<scriptVars, runVars, dsnVars, previewVars, clock, shown_at>>

\* A second passes.
Tick ==
  /\ clock < MaxClock
  /\ clock' = clock + 1
  /\ UNCHANGED <<scriptVars, runVars, dsnVars, previewVars, error_dialog, message_labels, timers, shown_at>>

NextMsg == show_error \/ show_message \/ remove_error \/ Tick

SpecMsg == InitMsg /\ [][NextMsg]_vars

(* File and DSN selection: select_file, the workers' finished signals,      *)
(* the bucket popup, reset.                                                 *)

\* The WDM files the user can pick, and what list_dsns gives for each.
Files == {"a.wdm", "b.wdm", "bad.wdm"}
ListDsns(file) ==
  CASE file = "a.wdm" -> [raises |-> FALSE, dsns |-> <<1250, 1000, 2000>>]
    [] file = "b.wdm" -> [raises |-> FALSE, dsns |-> <<1000, 3000>>]
    [] OTHER -> [raises |-> TRUE, dsns |-> <<>>]

\* Lines 30-48: what a worker for that file passes to finished.emit.
WorkerResult(file) ==
  IF ListDsns(file).raises THEN <<>> ELSE group_dsns(ListDsns(file).dsns)

KeyList(d) == [n \in 1..Len(d) |-> d[n].key]

\* int(), for a string of decimal digits.
DigitValue(c) ==
  CASE c = "0" -> 0 [] c = "1" -> 1 [] c = "2" -> 2 [] c = "3" -> 3 [] c = "4" -> 4
    [] c = "5" -> 5 [] c = "6" -> 6 [] c = "7" -> 7 [] c = "8" -> 8 [] c = "9" -> 9
RECURSIVE IntOf(_)
IntOf(text) ==
  IF Len(text) = 0 THEN 0
  ELSE IntOf(SubSeq(text, 1, Len(text) - 1)) * 10
         + DigitValue(SubSeq(text, Len(text), Len(text)))

\* Line 406: int(group.split("-")[0]).
BucketStart(group) ==
  LET dash == CHOOSE n \in 1..Len(group) :
                /\ SubSeq(group, n, n) = "-"
                /\ \A m \in 1..(n - 1) : SubSeq(group, m, m) # "-"
  IN IntOf(SubSeq(group, 1, dash - 1))

\* Lines 407-442: one checkbox per DSN of the group, column after column, a
\* column holding the DSNs of one range of 200; a box is pre-checked when its
\* DSN is selected.
RECURSIVE Checkboxes(_, _, _, _)
Checkboxes(group, dsns, selected, col) ==
  IF col > 4 THEN <<>>
  ELSE LET range_start == BucketStart(group) + 200 * col
           column_dsns == SelectSeq(dsns, LAMBDA dsn : range_start <= dsn /\ dsn <= range_start + 199)
       IN [n \in 1..Len(column_dsns) |->
             [text |-> ToString(column_dsns[n]),
              checked |-> \E m \in 1..Len(selected) : selected[m] = column_dsns[n]]]
            \o Checkboxes(group, dsns, selected, col + 1)

\* Lines 459-466, box after box.
RECURSIVE Confirmed(_, _)
Confirmed(selected, boxes) ==
  IF boxes = <<>> THEN selected
  ELSE LET dsn == IntOf(Head(boxes).text)
           IsIn == \E m \in 1..Len(selected) : selected[m] = dsn
       IN Confirmed(IF Head(boxes).checked
                      THEN IF IsIn THEN selected ELSE Append(selected, dsn)
                      ELSE IF IsIn THEN Remove(selected, dsn) ELSE selected,
                    Tail(boxes))

InitDsn ==
  /\ ScriptIdle
  /\ PreviewIdle
  /\ RunIdle
  /\ MsgIdle
  /\ DsnIdle

\* The thread of worker w has not quit yet: it quits when the main thread
\* handles the worker's finished signal (line 353).
ThreadRunning(w) == workers[w].state # "done"

\* Lines 325-358, the dialog not cancelled.  The main window takes no input
\* while the popup is up (dialog.exec()).  Line 345 rebinds self.worker_thread:
\* nothing else refers to the earlier QThread, so if that thread is still
\* running a running thread object is destroyed, and the process may abort.
select_file ==
  /\ app = "running"
  /\ ~ popup.open
  /\ Len(workers) < MaxSelections
  /\ \E file_path \in Files :
       /\ file_input' = file_path
       /\ workers' = Append(workers,
                       [file |-> file_path, state |-> "running",
                        overlapped |-> \E w \in 1..Len(workers) : workers[w].state = "running"])
  /\ IF \E w \in 1..Len(workers) : ThreadRunning(w)
       THEN app' \in {"running", "aborted"}
       ELSE app' = "running"
  /\ UNCHANGED <<scriptVars, runVars, msgVars, previewVars, finished_queue, grouped_dsns, bucket_buttons,
                 selected_dsns, popup>>

\* Lines 45, 48: a worker emits finished; the signal is queued for the main
\* thread.  The workers run in threads of their own, in no fixed order.
worker_finished ==
  /\ app = "running"
  /\ \E w \in 1..Len(workers) :
       /\ workers[w].state = "running"
       /\ workers' = [workers EXCEPT ![w].state = "emitted"]
       /\ finished_queue' = Append(finished_queue, w)
  /\ UNCHANGED <<scriptVars, runVars, msgVars, previewVars, app, file_input, grouped_dsns, bucket_buttons,
                 selected_dsns, popup>>

\* Lines 360-380, for the oldest queued signal; the popup's event loop handles
\* it as well.
on_dsn_processing_finished ==
  /\ app = "running"
  /\ finished_queue # <<>>
  /\ LET w == Head(finished_queue)
         result == WorkerResult(workers[w].file)
     IN /\ workers' = [workers EXCEPT ![w].state = "done"]
        /\ IF result # <<>>
             THEN /\ grouped_dsns' = result
                  /\ bucket_buttons' = KeyList(result)
                  /\ UNCHANGED msgVars
             ELSE /\ ShowLabel("orange", "Failed to process DSNs.")
                  /\ UNCHANGED <<grouped_dsns, bucket_buttons>>
  /\ finished_queue' = Tail(finished_queue)
  /\ UNCHANGED <<scriptVars, runVars, previewVars, app, file_input, selected_dsns, popup>>

\* Lines 382-455, on a click of the button of `group`.
open_dsn_popup ==
  /\ app = "running"
  /\ ~ popup.open
  /\ \E b \in 1..Len(bucket_buttons) :
       LET group == bucket_buttons[b]
           dsns == grouped_dsns[DictGet(grouped_dsns, group)].dsns
       IN popup' = [open |-> TRUE, boxes |-> Checkboxes(group, dsns, selected_dsns, 0)]
  /\ UNCHANGED <<scriptVars, runVars, msgVars, previewVars, app, file_input, workers, finished_queue,
                 grouped_dsns, bucket_buttons, selected_dsns>>

\* The user ticks or unticks a box of the popup.
toggle_checkbox ==
  /\ app = "running"
  /\ popup.open
  /\ \E n \in 1..Len(popup.boxes) :
       popup' = [popup EXCEPT !.boxes[n].checked = ~ @]
  /\ UNCHANGED <<scriptVars, runVars, msgVars, previewVars, app, file_input, workers, finished_queue,
                 grouped_dsns, bucket_buttons, selected_dsns>>

\* Lines 457-470.
confirm_dsn_selection ==
  /\ app = "running"
  /\ popup.open
  /\ selected_dsns' = Confirmed(selected_dsns, popup.boxes)
  /\ popup' = NoPopup
  /\ UNCHANGED <<scriptVars, runVars, msgVars, previewVars, app, file_input, workers, finished_queue,
                 grouped_dsns, bucket_buttons>>

\* Line 455: the dialog is closed without Confirm.
close_popup ==
  /\ app = "running"
  /\ popup.open
  /\ popup' = NoPopup
  /\ UNCHANGED <<scriptVars, runVars, msgVars, previewVars, app, file_input, workers, finished_queue,
                 grouped_dsns, bucket_buttons, selected_dsns>>

\* Lines 472-475.
reset_selected_dsns ==
  /\ app = "running"
  /\ ~ popup.open
  /\ selected_dsns' = <<>>
  /\ UNCHANGED <<scriptVars, runVars, msgVars, previewVars, app, file_input, workers, finished_queue,
                 grouped_dsns, bucket_buttons, popup>>

NextDsn ==
  \/ select_file
  \/ worker_finished
  \/ on_dsn_processing_finished
  \/ open_dsn_popup
  \/ toggle_checkbox
  \/ confirm_dsn_selection
  \/ close_popup
  \/ reset_selected_dsns

SpecDsn == InitDsn /\ [][NextDsn]_vars

(* The data preview: show_data_preview, update_decimal_places. *)

\* The preview of two DSNs whose data share one index, as preview_data
\* builds them (lines 745-748).
NumDsnColumns == 2
PreviewDsns == <<"1000", "1250">>

\* data.loc[index].iloc[0] of the DSN of column col at data row r (from 0),
\* in hundredths: the data are rounded when they are built (line 748).
Value(col, r) == 100 * r + 36 + col

\* index.strftime(date_format) of data row r: one date per row.
DateText(r) == "day " \o ToString(r)

RECURSIVE Pow10(_)
Pow10(n) == IF n = 0 THEN 1 ELSE 10 * Pow10(n - 1)

RECURSIVE ZeroPad(_, _)
ZeroPad(text, width) == IF Len(text) >= width THEN text ELSE ZeroPad("0" \o text, width)

\* f"{value:.{decimal_places}f}" for a value given in hundredths.  The values
\* of Value never lie half-way between two results, so the rounding rule for
\* ties plays no part.
Format(hundredths, decimal_places) ==
  LET scaled == IF decimal_places >= 2
                  THEN hundredths * Pow10(decimal_places - 2)
                  ELSE (hundredths + Pow10(2 - decimal_places) \div 2)
                         \div Pow10(2 - decimal_places)
      whole == scaled \div Pow10(decimal_places)
      fraction == scaled % Pow10(decimal_places)
  IN IF decimal_places = 0 THEN ToString(whole)
     ELSE ToString(whole) \o "." \o ZeroPad(ToString(fraction), decimal_places)

Ellipsis == -1

\* Lines 846-883: the data row that body row i (from 0) of the table shows, or
\* Ellipsis.
DataRowAt(i, total_rows) ==
  IF total_rows > PreviewLimit
    THEN IF i < HeadRows THEN i
         ELSE IF i < HeadRows + EllipsisRows THEN Ellipsis
         ELSE (total_rows - TailRows) + (i - (HeadRows + EllipsisRows))
    ELSE i

Min(a, b) == IF a <= b THEN a ELSE b

\* Lines 792-883: the table show_data_preview builds, every column at the
\* decimal places its input shows ("2").  Rows and columns count from 1 here,
\* from 0 in the code.
PreviewTable(total_rows, inputs) ==
  LET num_rows == Min(PreviewLimit, total_rows)
      num_columns == 1 + NumDsnColumns
  IN [row \in 1..(header_rows + num_rows) |->
       [c \in 1..num_columns |->
          LET col == c - 1
              i == row - 1 - header_rows
          IN CASE row = 1 -> IF col = 0 THEN "DSN" ELSE PreviewDsns[col]
               [] row = 2 -> IF col = 0 THEN "Attribute" ELSE "Mean"
               [] row = 3 -> IF col = 0 THEN "Decimal Places" ELSE ""
               [] OTHER ->
                    IF DataRowAt(i, total_rows) = Ellipsis THEN "..."
                    ELSE IF col = 0 THEN DateText(DataRowAt(i, total_rows))
                    ELSE Format(Value(col, DataRowAt(i, total_rows)), IntOf(inputs[col]))]]

\* Lines 1100-1111 for a text int() accepts: the value of data row i goes
\* into table row row_offset + i, for every i; QTableWidget.setItem ignores a
\* row the table does not have.  Lines 1102-1103 for a text int() rejects.
DecimalPlacesUpdated(table, col, text) ==
  IF text = "" THEN table
  ELSE [row \in 1..Len(table) |->
         IF row > header_rows /\ row - 1 - header_rows < data_rows
           THEN [table[row] EXCEPT
                   ![col + 1] = Format(Value(col, row - 1 - header_rows), IntOf(text))]
           ELSE table[row]]

\* What the user can leave in a decimal input: QIntValidator(0, 10) lets
\* through digits and the empty text.
PlaceTexts == {""} \cup {ToString(d) : d \in 0..MaxPlaces}
RowCounts == {1, 2, PreviewLimit, MaxRows}

InitPreview ==
  /\ ScriptIdle
  /\ RunIdle
  /\ MsgIdle
  /\ DsnIdle
  /\ preview_pc = "closed"
  /\ data_rows \in RowCounts
  /\ preview_table = <<>>
  /\ decimal_inputs = <<>>

\* Lines 784-904.
show_data_preview ==
  /\ preview_pc = "closed"
  /\ preview_pc' = "open"
  /\ decimal_inputs' = [col \in 1..NumDsnColumns |-> "2"]
  /\ preview_table' = PreviewTable(data_rows, decimal_inputs')
  /\ UNCHANGED <<scriptVars, runVars, msgVars, dsnVars, data_rows>>

\* Lines 1094-1111, called when the text of the input of column col changes.
update_decimal_places ==
  /\ preview_pc = "open"
  /\ \E col \in 1..NumDsnColumns, text \in PlaceTexts :
       /\ text # decimal_inputs[col]
       /\ decimal_inputs' = [decimal_inputs EXCEPT ![col] = text]
       /\ preview_table' = DecimalPlacesUpdated(preview_table, col, text)
  /\ UNCHANGED <<scriptVars, runVars, msgVars, dsnVars, preview_pc, data_rows>>

\* Line 904: the preview dialog is closed.
close_preview ==
  /\ preview_pc = "open"
  /\ preview_pc' = "closed"
  /\ UNCHANGED <<scriptVars, runVars, msgVars, dsnVars, data_rows, preview_table,
                 decimal_inputs>>

NextPreview == show_data_preview \/ update_decimal_places \/ close_preview

SpecPreview == InitPreview /\ [][NextPreview]_vars

----------------------------------------------------------------------------
(* Vocabulary of the properties. *)

\* Where in the log each walk starts: the positions of the launches, in order.
IsLaunch(i) == log[i] = Popen
LaunchSeq == SelectSeq([i \in 1..Len(log) |-> i], IsLaunch)

\* What walk k (1 for the first record) has emitted so far, from its launch on.
EventsOfWalk(k) ==
  LET starts == LaunchSeq
  IN IF k > Len(starts) THEN <<>>
     ELSE SubSeq(log, starts[k],
                 IF k < Len(starts) THEN starts[k + 1] - 1 ELSE Len(log))

\* The walk of record k has run to its return statement.
WalkOver(k) == k >= 1 /\ (k < idx \/ (k = idx /\ pc \in {"return", "loop", "done"}))

\* The file names of the capture calls made so far, in order: by walk k, by all.
IsCapture(e) == e.op = "screenshot"
CaptureNames(events) ==
  LET calls == SelectSeq(events, IsCapture)
  IN [j \in 1..Len(calls) |-> calls[j].arg]
CapturesOfWalk(k) == CaptureNames(EventsOfWalk(k))
AllCaptures == CaptureNames(log)

\* How often walk k has typed the resolution string / called for LP3_GRAPH.
IsPrompt(e) == e = Write("97,97", 0)
IsLP3Graph(name) == EndsWith(name, "_LP3_GRAPH.png")
PromptsOfWalk(k) == Len(SelectSeq(EventsOfWalk(k), IsPrompt))
LP3GraphsOfWalk(k) == Len(SelectSeq(CapturesOfWalk(k), IsLP3Graph))

\* SessionState.oneTimePromptSatisfied: the flag of the walk while a walk runs,
\* the flag main() carries between walks.
oneTimePromptSatisfied ==
  IF pc \in {"start", "loop", "done"} THEN main_resolution_prompted
  ELSE resolution_prompted

----------------------------------------------------------------------------
\* C1: in a batch of N >= 1 records walked with the flag carried from record
\* to record, the resolution string "97,97" is typed and the LP3_GRAPH capture
\* is taken at most once, only during the walk of the first record, and
\* exactly once as soon as the first record's walk is over.
C1_OnePromptOnFirstRecord ==
  /\ idx >= 1 => /\ PromptsOfWalk(1) <= 1
                 /\ LP3GraphsOfWalk(1) <= 1
  /\ WalkOver(1) => /\ PromptsOfWalk(1) = 1
                    /\ LP3GraphsOfWalk(1) = 1
  /\ \A k \in 2..idx : /\ PromptsOfWalk(k) = 0
                        /\ LP3GraphsOfWalk(k) = 0

C1_Witness ==
  /\ pc = "done"
  /\ Len(prn_files) = 2
  /\ PromptsOfWalk(1) = 1
  /\ PromptsOfWalk(2) = 0
  /\ Len(AllCaptures) = 11

\* C2: oneTimePromptSatisfied never goes from true back to false (so it goes
\* from false to true at most once), and the only step that changes it is the
\* one that follows the answered resolution prompt (line 175).
C2_FlagSetOnceNeverReverts ==
  [][/\ oneTimePromptSatisfied => oneTimePromptSatisfied'
     /\ oneTimePromptSatisfied' # oneTimePromptSatisfied
          => pc = "resolution_done" /\ pc' = "wakeby"]_vars

C2_Witness ==
  /\ idx = 2
  /\ pc = "resolution"
  /\ oneTimePromptSatisfied

\* C3: when check_dosbox_window finds the window absent at a check that
\* precedes a typed command (lines 119, 128), the run exits there: that step
\* emits nothing and moves to no other record, and nothing happens afterwards.
C3_HaltOnFailedCheck ==
  [][/\ (pc \in {"check_mount", "check_switch"} /\ ~window)
          => (pc' = "exited" /\ log' = log /\ idx' = idx)
     /\ pc = "exited" => (pc' = "exited" /\ log' = log /\ idx' = idx)]_vars

C3_Witness ==
  /\ pc = "exited"
  /\ idx < Len(prn_files)
  /\ log # <<>>

----------------------------------------------------------------------------
\* C4: if the window is absent when take_screenshot looks it up (line 69),
\* the batch is aborted: the run is halted as soon as the call has ended that
\* way, so that no keystroke follows.
C4_AbortOnMissingWindowInShot ==
  lastShot.result = "not_found" => pc \in Halted

\* The capture taken just before the one a poll is about to take.
LastCapture ==
  IF current_screenshot = Unbound THEN previous_screenshot ELSE current_screenshot

Saved == {"saved", "saved_timeout"}

\* C5: a poll of the stability wait goes on to another poll only if its frame
\* differs from the immediately preceding capture; a poll that ends the wait
\* has captured a frame identical to the preceding capture, hands exactly that
\* frame to save() under the requested file name, and the wait is over after
\* that one sleep and capture.
C5_ReturnAtFirstIdenticalPoll ==
  [][/\ (spc = "loop" /\ spc' = "loop" /\ elapsed' # elapsed)
          => current_screenshot' # LastCapture
     /\ (spc = "loop" /\ spc' = "none" /\ lastShot'.by = "stable")
          => /\ lastShot'.frame = LastCapture
             /\ lastShot'.result \in {"saved", "io_error"}
             /\ lastShot'.file = filename
             /\ lastShot'.waited <= elapsed + PollSleep + MaxCaptureSecs]_vars

C5_Witness ==
  /\ lastShot.by = "stable"
  /\ lastShot.result = "saved"
  /\ lastShot.waited > PollSleep + MaxCaptureSecs

\* C6: the time between entering and leaving the stability wait never
\* exceeds timeout.
C6_WaitWithinTimeout ==
  lastShot.by \in {"stable", "timeout"} => lastShot.waited <= lastShot.timeout

\* C7: whenever the wait ends by timeout, for any timeout >= 0, the last
\* captured frame is saved under the requested file name; the timeout itself
\* never becomes an error or a missing artifact (only a failing save() may
\* lose the artifact).
C7_TimeoutStillSaves ==
  lastShot.by = "timeout"
    => /\ lastShot.result \in {"saved_timeout", "io_error"}
       /\ lastShot.frame # Unbound
       /\ lastShot.file = "out.png"

----------------------------------------------------------------------------
Digits == {"0", "1", "2", "3", "4", "5", "6", "7", "8", "9"}
Stages == {"LP3", "LP3_GRAPH", "WAKEBY", "WAKEBY_GRAPH", "GEV", "GEV_GRAPH"}

\* name has the form {sequence:02d}_{record}_{stage}.png for that record and stage.
IsArtifactName(name, record, stage) ==
  /\ Len(name) > 2
  /\ SubSeq(name, 1, 1) \in Digits
  /\ SubSeq(name, 2, 2) \in Digits
  /\ SubSeq(name, 3, Len(name)) = "_" \o record \o "_" \o stage \o ".png"

\* C8: every capture step of a batch is given a file name of the form
\* {sequence:02d}_{record}_{stage}.png with the record being walked, no two
\* capture steps of the batch are given the same name, and a capture step
\* writes only the name it was given, at most once: so no name is written
\* twice and no walk overwrites an artifact of an earlier record.
C8_ArtifactNamesWriteOnce ==
  LET all == AllCaptures
  IN /\ \A k \in 1..idx :
          LET caps == CapturesOfWalk(k)
          IN \A j \in DOMAIN caps :
               \E stage \in Stages : IsArtifactName(caps[j], prn_files[k], stage)
     /\ \A i, j \in DOMAIN all : i # j => all[i] # all[j]
     /\ lastShot.result \in Saved => all # <<>> /\ all[Len(all)] = lastShot.file
     /\ spc # "none" => all # <<>> /\ all[Len(all)] = filename

C8_Witness ==
  /\ idx = 2
  /\ pc = "return"
  /\ lastShot.result = "saved"
  /\ Len(AllCaptures) = 11

----------------------------------------------------------------------------
IsKeystroke(e) == e.op \in {"press", "write", "hotkey"}
KeysOf(events) == SelectSeq(events, IsKeystroke)

IsPrefix(a, b) == Len(a) <= Len(b) /\ a = SubSeq(b, 1, Len(a))

\* What the current walk has emitted so far.
WalkEvents == EventsOfWalk(idx)

\* The keystrokes of a whole walk of `record` entered with the flag at `flag`,
\* read off process_prn_file from top to bottom.
WalkKeystrokes(record, flag) ==
  KeysOf(MountKeys \o StartCFAKeys \o MainMenuKeys \o FileSelectKeys(record)
         \o DriveConfirmKeys \o FrequencyMenuKeys \o LP3Keys \o LP3DismissKeys
         \o (IF flag THEN <<>> ELSE ResolutionKeys \o GraphDismissKeys)
         \o WakebyKeys \o ToGraphKeys \o GraphDismissKeys
         \o GevKeys \o ToGraphKeys \o GraphDismissKeys
         \o ReturnToMainKeys \o CloseKeys)

InWalk == idx >= 1 /\ pc \notin {"loop", "done"}

\* C10: the keystrokes a walk emits depend only on the record and on the flag
\* it was entered with, not on how its capture steps ended: they are always a
\* prefix of the one fixed sequence, the whole of it when the walk returns,
\* and a capture step whose save() failed leaves the walk running.
C10_KeystrokesIndependentOfSaves ==
  /\ InWalk => IsPrefix(KeysOf(WalkEvents),
                        WalkKeystrokes(prn_file, main_resolution_prompted))
  /\ pc = "return" => KeysOf(WalkEvents)
                        = WalkKeystrokes(prn_file, main_resolution_prompted)
  /\ lastShot.result = "io_error" => pc \notin Halted

C10_Witness ==
  /\ pc = "return"
  /\ lastShot.result = "io_error"
  /\ KeysOf(WalkEvents) = WalkKeystrokes(prn_file, main_resolution_prompted)

----------------------------------------------------------------------------
(* Properties of the one-session-per-record walk and of startup. *)

\* process_prn_file or main is at a statement of its own, or has just called
\* take_screenshot: the log changes in no step that ends anywhere else.
AtStatement == spc # "loop"

\* C13: when DOSBox.exe is not at the configured path, the script stops at its
\* startup check: the step taken from there ends in the raised FileNotFoundError
\* with nothing launched, typed or captured, the directory not listed and the
\* screenshot directory not created, and nothing happens afterwards.
C13_MissingExecutableStopsAtStartup ==
  [][ /\ (pc = "import" /\ ~dosbox_exists) =>
           /\ pc' = "startup_failed"
           /\ log' = <<>>
           /\ prn_files' = <<>>
           /\ UNCHANGED <<screenshot_dir_exists, window, idx>>
      /\ ~dosbox_exists => pc' \in {"import", "startup_failed"}
      /\ pc # "startup_failed" ]_vars

C13_Witness ==
  /\ pc = "startup_failed"
  /\ ~dosbox_exists
  /\ ~screenshot_dir_exists
  /\ listing # <<>>

\* C11: DOSBox is relaunched for every record, so every launch starts with the
\* one-time prompt unsatisfied and every completed walk answers the resolution
\* prompt; the flag of one launch is never carried into the next.
C11_EveryLaunchStartsUnprompted ==
  /\ pc \in {"launch", "focus"} => ~resolution_prompted
  /\ AtStatement => \A k \in 1..idx : WalkOver(k) => PromptsOfWalk(k) = 1

\* The typed record names (line 150) among some events.
IsRecordName(e) == e.op = "write" /\ EndsWith(e.arg, ".prn")

\* C12: at most one record is in flight: there is one launch per record
\* entered, the launch of walk k+1 comes right after the ReturnToMain key and
\* the alt+f4 of walk k, and walk k types the k-th enumerated record and no
\* other.
C12_OneRecordInFlight ==
  AtStatement =>
    LET starts == LaunchSeq
    IN /\ Len(starts) = IF pc = "launch" THEN idx - 1 ELSE idx
       /\ \A k \in 2..Len(starts) :
            /\ starts[k] > 2
            /\ log[starts[k] - 1] = Hotkey("alt+f4")
            /\ log[starts[k] - 2] = Press("1", DefaultInterval)
       /\ \A k \in 1..Len(starts) :
            LET typed == SelectSeq(EventsOfWalk(k), IsRecordName)
            IN /\ Len(typed) <= 1
               /\ \A i \in 1..Len(typed) : typed[i].arg = prn_files[k]

C12_Witness ==
  /\ idx = 2
  /\ pc = "drive_confirm"
  /\ Len(LaunchSeq) = 2
  /\ prn_files[1] # prn_files[2]

\* The artifact names a whole batch over `files` asks for, as a function of
\* the enumerated records alone: six for the first record, five for the others.
ArtifactNamesOf(files) ==
  UNION {{"01_" \o files[k] \o "_LP3.png", "03_" \o files[k] \o "_WAKEBY.png",
          "04_" \o files[k] \o "_WAKEBY_GRAPH.png", "05_" \o files[k] \o "_GEV.png",
          "06_" \o files[k] \o "_GEV_GRAPH.png"} : k \in DOMAIN files}
    \cup {"02_" \o files[k] \o "_LP3_GRAPH.png" : k \in DOMAIN files \cap {1}}

\* Every record has been walked to its end.
BatchComplete == pc = "done" \/ (pc = "return" /\ idx = Len(prn_files))

\* C14: a batch that completes without a halt has asked for exactly the set of
\* artifact names fixed by the directory listing, however many polls its
\* stability waits took and however they ended: two completed runs over the
\* same listing ask for the same set.
C14_SameListingSameNames ==
  BatchComplete =>
    {AllCaptures[i] : i \in DOMAIN AllCaptures} = ArtifactNamesOf(FilterPrn(listing))

C14_Witness ==
  /\ pc = "return"
  /\ idx = 2
  /\ Len(prn_files) = 2
  /\ lastShot.by = "timeout"
  /\ Len(AllCaptures) = 11

\* The statements that send the confirmation keys after the capture step of an
\* analysis (lines 167, 182, 191), and the analysis each one follows.
AfterAnalysis == {"lp3_dismiss", "wakeby_graph", "gev_graph"}
AnalysisAt(at) ==
  CASE at = "lp3_dismiss" -> "LP3"
    [] at = "wakeby_graph" -> "WAKEBY"
    [] at = "gev_graph" -> "GEV"

\* C15: when the confirmation keys that follow an analysis (LP3, WAKEBY, GEV)
\* are about to be sent, the walk has made exactly one capture step for that
\* analysis, the stability wait of that step has run, and its artifact has
\* been persisted (a failed save, which the walk is meant to survive, aside).
C15_ArtifactBeforeDismiss ==
  (spc = "none" /\ pc \in AfterAnalysis) =>
    LET caps == CapturesOfWalk(idx)
        IsThisAnalysis(name) == IsArtifactName(name, prn_file, AnalysisAt(pc))
    IN /\ Len(SelectSeq(caps, IsThisAnalysis)) = 1
       /\ IsThisAnalysis(lastShot.file)
       /\ lastShot.by \in {"stable", "timeout"}
       /\ lastShot.result \in Saved \cup {"io_error"}

\* The statements that call check_dosbox_window (lines 119, 128).
CheckStatements == {"check_mount", "check_switch"}

\* C16: every typed command is followed by a window-liveness check before the
\* next keystroke: a step that types text (mount, drive switch, CFA, record
\* name, drive letter) leaves the walk at a call of check_dosbox_window.
C16_CheckAfterEveryTypedCommand ==
  [][(\E i \in (Len(log) + 1)..Len(log') : log'[i].op = "write")
       => pc' \in CheckStatements]_vars

SubstRecord(e, from, to) ==
  IF e.op = "write" /\ e.arg = from THEN [e EXCEPT !.arg = to]
  ELSE IF /\ e.op = "screenshot"
          /\ Len(e.arg) >= 3 + Len(from)
          /\ SubSeq(e.arg, 4, 3 + Len(from)) = from
       THEN [e EXCEPT !.arg = SubSeq(e.arg, 1, 3) \o to
                                \o SubSeq(e.arg, 4 + Len(from), Len(e.arg))]
       ELSE e

\* Some events without the one-time prompt steps (lines 170-177): everything
\* from the typed resolution string up to the WAKEBY selection.
WithoutPrompt(events) ==
  IF \E i \in 1..Len(events) : IsPrompt(events[i])
  THEN LET from == CHOOSE i \in 1..Len(events) : IsPrompt(events[i])
           to == CHOOSE j \in from..Len(events) :
                   /\ events[j] = WakebyKeys[1]
                   /\ \A m \in from..(j - 1) : events[m] # WakebyKeys[1]
       IN SubSeq(events, 1, from - 1) \o SubSeq(events, to, Len(events))
  ELSE events

\* The step that opens each stage of a walk of `record`, in the order FileSelect,
\* DriveConfirm, LP3, (ResolutionPrompt), WAKEBY, GEV, ReturnToMain.
StageOpeners(record, prompted) ==
  <<Write(record, 0), Write("C:", 0), Press("3", 100)>>
    \o (IF prompted THEN <<Write("97,97", 0)>> ELSE <<>>)
    \o <<Press("4", 100), Press("1", 100), Press("1", 100)>>

\* C18: every later record's walk emits, in order, the same keystroke and
\* capture steps as the first record's walk with its own file name in place
\* of the first one's and without the one-time prompt steps; and in every walk
\* the stages open in the order FileSelect, DriveConfirm, LP3,
\* (ResolutionPrompt), WAKEBY, GEV, ReturnToMain.
C18_SameStepsForEveryRecord ==
  AtStatement =>
    /\ \A k \in 2..Len(LaunchSeq) :
         LET first == WithoutPrompt(EventsOfWalk(1))
             want == [i \in 1..Len(first) |->
                        SubstRecord(first[i], prn_files[1], prn_files[k])]
             mine == EventsOfWalk(k)
         IN /\ IsPrefix(mine, want)
            /\ WalkOver(k) => mine = want
    /\ \A k \in 1..Len(LaunchSeq) :
         LET want == StageOpeners(prn_files[k], PromptsOfWalk(k) > 0)
             IsOpener(e) == \E i \in 1..Len(want) : e = want[i]
             mine == SelectSeq(EventsOfWalk(k), IsOpener)
         IN /\ IsPrefix(mine, want)
            /\ WalkOver(k) => mine = want

C18_Witness ==
  /\ pc = "done"
  /\ Len(prn_files) = 2
  /\ prn_files[1] # prn_files[2]
  /\ Len(EventsOfWalk(2)) < Len(EventsOfWalk(1))
  /\ Len(CapturesOfWalk(2)) = 5

\* The event at position i of `events` comes after an activation of the window
\* with no launch in between: the session it belongs to has been focused.
Focused(events, i) ==
  \E j \in 1..(i - 1) :
    /\ events[j] = Activate
    /\ \A m \in j..i : events[m] # Popen

\* C19: after every launch the window is activated before any keystroke of
\* that session; when no window is found at that point the step ends in the
\* uncaught exception with nothing emitted, and nothing happens afterwards: no
\* keystroke in that session, no later record walked.
C19_FocusAfterEveryLaunch ==
  [][/\ \A i \in (Len(log) + 1)..Len(log') :
          IsKeystroke(log'[i]) => Focused(log', i)
     /\ (pc = "focus" /\ ~window) =>
          (pc' = "raised" /\ log' = log /\ idx' = idx)
     /\ pc # "raised"]_vars

C19_Witness ==
  /\ pc = "raised"
  /\ idx = 1
  /\ Len(prn_files) = 2
  /\ KeysOf(log) = <<>>

\* The activation, the three typed commands of the bootstrap (lines 124, 133,
\* 136) and the typed record name of a walk of `record`, in the order of the code.
BootstrapMarks(record) ==
  <<Activate, Write("mount c C:/Temp", 10), Write("c:", 10), Write("CFA", 10),
    Write(record, 0)>>

\* C20: in every session (from one launch to the next) the bootstrap is issued
\* at most once, in the order mount, drive switch, program start, after the
\* window was activated and before the record name is typed; a session that
\* types its record name has issued each bootstrap command exactly once, and
\* the program start is followed by the three splash-dismissing enters.
C20_BootstrapOncePerSession ==
  AtStatement =>
    \A k \in 1..Len(LaunchSeq) :
      LET events == EventsOfWalk(k)
          want == BootstrapMarks(prn_files[k])
          IsMark(e) == IsRecordName(e) \/ \E i \in 1..4 : e = want[i]
          marks == SelectSeq(events, IsMark)
          IsStart(i) == events[i] = Write("CFA", 10)
          started == SelectSeq([i \in 1..Len(events) |-> i], IsStart)
      IN /\ IsPrefix(marks, want)
         /\ \A n \in 1..Len(started) :
              /\ Len(events) >= started[n] + 3
              /\ \A i \in 1..3 : events[started[n] + i] = Press("enter", 100)

C20_Witness ==
  /\ idx = 2
  /\ pc = "frequency_menu"
  /\ Len(LaunchSeq) = 2
  /\ Len(SelectSeq(log, LAMBDA e : e = Write("CFA", 10))) = 2

----------------------------------------------------------------------------
(* Properties of the sessions, the captures, the enumeration and the delays. *)

\* How many launches / close combinations some events hold.
Opens(events) == Len(SelectSeq(events, LAMBDA e : e = Popen))
Closes(events) == Len(SelectSeq(events, LAMBDA e : e = Hotkey("alt+f4")))

\* C21: every launch happens with no session open; every close combination
\* comes right after the ReturnToMain key of its session and closes the one
\* open session; and when the batch is done there has been one launch per
\* record and as many close combinations: no session is left open.
C21_EverySessionClosedOnce ==
  [][/\ \A i \in (Len(log) + 1)..Len(log') :
          /\ log'[i] = Popen => Opens(log) = Closes(log)
          /\ log'[i] = Hotkey("alt+f4") =>
               /\ i > 1
               /\ log'[i - 1] = Press("1", DefaultInterval)
               /\ Opens(log) = Closes(log) + 1
               /\ Closes(log') = Closes(log) + 1
     /\ pc' = "done" =>
          /\ Opens(log') = Len(prn_files')
          /\ Closes(log') = Len(prn_files')]_vars

C21_Witness ==
  /\ pc = "done"
  /\ Opens(log) = 2
  /\ Closes(log) = 2

\* A step in which take_screenshot captures the screen: the first capture
\* (line 75) or the capture of a poll (line 83).
CaptureStep ==
  \/ spc = "entry" /\ spc' = "loop"
  \/ spc = "loop" /\ elapsed < timeout /\ <<spc, elapsed>>' # <<spc, elapsed>>

\* C22: every capture of a stability wait is clipped to the geometry the window
\* has at the moment of that capture, also after the window was moved or
\* resized between two polls.
C22_CaptureUsesCurrentGeometry ==
  [][CaptureStep => grabbed' = geometry']_vars

\* The record names typed so far, in order.
RecordsWalked ==
  LET typed == SelectSeq(log, IsRecordName)
  IN [i \in 1..Len(typed) |-> typed[i].arg]

\* C23: the record list is the ".prn" names of the one directory listing read
\* when main() starts; no later step changes it, whatever happens to the
\* directory meanwhile; and the records walked are that list, in its order:
\* a prefix of it while the batch runs, the whole of it when the batch is done.
C23_RecordsFromOneListing ==
  [][/\ (pc = "start" /\ pc' # pc) => prn_files' = FilterPrn(listing)
     /\ pc # "start" => prn_files' = prn_files
     /\ IsPrefix(RecordsWalked', prn_files')
     /\ pc' = "done" => RecordsWalked' = prn_files']_vars

C23_Witness ==
  /\ pc = "done"
  /\ Len(prn_files) = 2
  /\ RecordsWalked = prn_files
  /\ FilterPrn(listing) # prn_files

\* C24: no two symbols are sent back to back.  Checked on the typed texts, where
\* the delay between two characters is the interval the call was given and
\* nothing else: every text of two or more characters is typed with a non-zero
\* interval.  (The claim says the same of every key press as well.)
C24_NonZeroDelayBetweenSymbols ==
  AtStatement =>
    \A i \in 1..Len(log) :
      (log[i].op = "write" /\ Len(log[i].arg) > 1) => log[i].delay > 0

\* The script has ended: every record walked, or halted by the startup check,
\* sys.exit() or the uncaught exception.
Terminated == pc \in {"done", "startup_failed", "exited", "raised"}

\* C25: whatever the listing, the frames and the window do, a run of the batch
\* eventually ends, with every record walked or with a fatal halt: no
\* stability wait polls forever.
C25_BatchTerminates == <>Terminated

C25_Witness ==
  /\ pc = "done"
  /\ Len(prn_files) = 2
  /\ grabbed # Unbound

----------------------------------------------------------------------------
(* DSNWorker.run *)

RunPercents ==
  LET shown == SelectSeq(run_emitted, LAMBDA e : e.signal = "progress")
  IN [n \in 1..Len(shown) |-> shown[n].percent]

RunFinishes == {n \in 1..Len(run_emitted) : run_emitted[n].signal = "finished"}

\* finished is emitted never during the run and once at its end, as the last
\* signal.
FinishedOnceAtEnd ==
  IF run_pc = "ended"
    THEN RunFinishes = {Len(run_emitted)}
    ELSE RunFinishes = {}

\* The progress values so far lie in lowest..100 and never go down; once a run
\* over at least one DSN has succeeded, the last of them is 100.
ProgressRises(lowest) ==
  LET percents == RunPercents
  IN /\ \A n \in 1..Len(percents) : percents[n] \in lowest..100
     /\ \A n \in 2..Len(percents) : percents[n - 1] <= percents[n]
     /\ (run_pc = "ended" /\ ~ run_listed.raises /\ run_listed.dsns # <<>>)
          => percents[Len(percents)] = 100

ThousandBucket(d) ==
  LET floor == (d \div 1000) * 1000 IN ToString(floor) \o "-" \o ToString(floor + 999)

\* The groups of the finished signal of a successful run: every DSN of the
\* file is in exactly one place of exactly one group, under its bucket.
GroupsPartition ==
  (run_pc = "ended" /\ ~ run_listed.raises) =>
    LET groups == run_emitted[Len(run_emitted)].grouped_dsns
        dsns == run_listed.dsns
    IN /\ \A a \in 1..Len(dsns) :
            \E g \in 1..Len(groups) :
              /\ groups[g].key = ThousandBucket(dsns[a])
              /\ \E n \in 1..Len(groups[g].dsns) :
                    /\ groups[g].dsns[n] = dsns[a]
                    /\ \A h \in 1..Len(groups) :
                         \A m \in 1..Len(groups[h].dsns) :
                           groups[h].dsns[m] = dsns[a] => (h = g /\ m = n)
       /\ \A g, h \in 1..Len(groups) : groups[g].key = groups[h].key => g = h
       /\ \A g \in 1..Len(groups) :
            /\ groups[g].dsns # <<>>
            /\ \A n \in 1..Len(groups[g].dsns) :
                 \E a \in 1..Len(dsns) : dsns[a] = groups[g].dsns[n]

\* C28 as stated: every run of DSNWorker.run emits finished exactly once, as
\* its last signal, whether list_dsns succeeds or raises; the progress values
\* are non-decreasing integers in 1..100, the last one 100 when the file has
\* a DSN; the groups of a successful run partition the DSN list, each DSN
\* under the key of its thousand-bucket.
C28_ProgressFromOne ==
  /\ FinishedOnceAtEnd
  /\ ProgressRises(1)
  /\ GroupsPartition

\* C28, amended: the same with the progress values in 0..100 (a file with
\* more than 100 DSNs starts at 0).
C28_FinishedOnceProgressRises ==
  /\ FinishedOnceAtEnd
  /\ ProgressRises(0)
  /\ GroupsPartition

\* A successful run over two DSNs of two buckets has ended.
C28_Witness ==
  /\ run_pc = "ended"
  /\ ~ run_listed.raises
  /\ Len(run_listed.dsns) = 2
  /\ Len(run_emitted[Len(run_emitted)].grouped_dsns) = 2
  /\ Len(RunPercents) = 2

----------------------------------------------------------------------------
(* The message label *)

\* C27: whatever show_error / show_message calls and timer firings happen,
\* the main layout holds at most one message label, and a label that is up
\* goes away without a newer one taking its place only when 2 seconds have
\* passed since it was put up: the timer of an earlier message does not
\* remove a later message early.
C27_MessageStaysTwoSeconds ==
  [][/\ Len(message_labels') <= 1
     /\ (error_dialog # NoLabel /\ error_dialog' = NoLabel)
          => clock >= shown_at + MessageDelay]_vars

----------------------------------------------------------------------------
(* File and DSN selection *)

\* C26: when a second file was chosen while the worker of an earlier choice
\* had not finished, then, once every worker has finished and its signal has
\* been handled, grouped_dsns and the bucket buttons are those of the file
\* chosen last, the one file_input shows (a file list_dsns can read),
\* whichever worker finished last.
C26_LastChosenFileWins ==
  LET last == Len(workers)
  IN (/\ last >= 2
      /\ workers[last].overlapped
      /\ \A w \in 1..last : workers[w].state = "done"
      /\ WorkerResult(workers[last].file) # <<>>)
       => /\ file_input = workers[last].file
          /\ grouped_dsns = WorkerResult(file_input)
          /\ bucket_buttons = KeyList(WorkerResult(file_input))

DsnsIn(grouped) ==
  UNION {{grouped[g].dsns[n] : n \in 1..Len(grouped[g].dsns)} : g \in 1..Len(grouped)}

\* C29: after every step of selecting files, confirming popups and resetting,
\* selected_dsns holds no DSN twice and only DSNs of grouped_dsns, and the
\* step that selects another file leaves no DSN of the earlier file selected.
C29_SelectionWithinLoadedFile ==
  [][/\ \A a, b \in 1..Len(selected_dsns') :
          selected_dsns'[a] = selected_dsns'[b] => a = b
     /\ \A a \in 1..Len(selected_dsns') : selected_dsns'[a] \in DsnsIn(grouped_dsns')
     /\ (file_input # "" /\ file_input' # file_input)
          => \A a \in 1..Len(selected_dsns') :
               \A n \in 1..Len(ListDsns(file_input).dsns) :
                 selected_dsns'[a] # ListDsns(file_input).dsns[n]]_vars

----------------------------------------------------------------------------
(* The data preview *)

\* C30: a change of the decimal places of one column changes the number
\* formatting of that column only: every table row goes on showing the data
\* row show_data_preview put there (for more than 100 data rows: the first
\* 60, the 5 ellipsis rows, the last 35), and no other column changes.
C30_DecimalPlacesKeepRows ==
  [][(preview_pc = "open" /\ decimal_inputs' # decimal_inputs) =>
       \E col \in 1..NumDsnColumns :
         /\ decimal_inputs'[col] # decimal_inputs[col]
         /\ \A row \in 1..Len(preview_table) : \A c \in 1..(1 + NumDsnColumns) :
              LET shown == DataRowAt(row - 1 - header_rows, data_rows)
              IN preview_table'[row][c] =
                   IF c = col + 1 /\ row > header_rows /\ shown # Ellipsis
                        /\ decimal_inputs'[col] # ""
                     THEN Format(Value(col, shown), IntOf(decimal_inputs'[col]))
                     ELSE preview_table[row][c]]_vars
====
